---- MODULE Spec2Model ----
(***************************************************************************)
(* A model of the core of the ml-complexity-research-suite repository:     *)
(*   - the three sumset algorithms of algorithms/sumset.py                 *)
(*   - the exact-arithmetic type ExactReal of models/real_ram.py with its  *)
(*     process-wide OperationCost counter                                  *)
(*   - the bounded-width type WordRAMInteger of models/word_ram.py         *)
(* Each component has its own specification over the shared variables; a   *)
(* specification leaves the other component's variables at their idle      *)
(* values.                                                                 *)
(***************************************************************************)
EXTENDS Integers, Sequences, FiniteSets, TLC

VARIABLES
    a, b,            \* the two input sequences of the sumset algorithms
    naive,           \* SumsetResult of naive_sumset(a, b), or None
    bucket,          \* SumsetResult of bucket_sumset(a, b), or None
    fft,             \* SumsetResult of fft_sumset(a, b), or None
    x,               \* the ExactReal the caller currently holds
    counter,         \* _operation_counter (OperationCost)
    calls,           \* history: calls made per operation since the last reset
    steps,           \* history: calls made since the caller started
    last,            \* history: the last call (operation, operands, outcome)
    chain,           \* history: the value a divide-then-multiply pair started from
    wa, wb,          \* the two WordRAMInteger objects the caller holds
    word_ram_counter, \* _word_ram_counter (WordRAMCost)
    wsteps,          \* history: WordRAMInteger calls made so far
    wlast,           \* history: the last WordRAMInteger call
    hc,              \* hill_climb: its inputs, locals and result
    gd,              \* gradient_descent: its inputs, locals and result
    ex,              \* RealRAMOperationsExperiment.execute: its position and locals
    th               \* the callers sharing _operation_counter, one entry each

sumsetVars == <<a, b, naive, bucket, fft>>
exactVars == <<x, counter, calls, steps, last, chain>>
wordVars == <<wa, wb, word_ram_counter, wsteps, wlast>>

optVars == <<hc, gd>>
lifeVars == <<ex, th>>

vars == <<sumsetVars, exactVars, wordVars, optVars, lifeVars>>

\* What the actions of one component leave alone
nonSumsetVars == <<exactVars, wordVars, optVars, lifeVars>>
nonExactVars == <<sumsetVars, wordVars, optVars, lifeVars>>
nonWordVars == <<sumsetVars, exactVars, optVars, lifeVars>>
nonOptVars == <<sumsetVars, exactVars, wordVars, lifeVars>>
nonCounterVars == <<sumsetVars, x, calls, steps, last, chain, wordVars, optVars>>

None == [kind |-> "none"]

(***************************************************************************)
(* Bounds of the model.                                                    *)
(***************************************************************************)
MaxLen == 2          \* longest input sequence of the sumset algorithms
MaxVal == 1          \* sumset inputs are drawn from -1 .. MaxVal
MaxNum == 1          \* ExactReal inputs have numerators in -1 .. MaxNum
MaxDen == 2          \* ... and denominators in 1 .. MaxDen
MaxOps == 2          \* calls the caller of ExactReal makes in one run
MaxWidth == 3        \* WordRAMInteger word sizes are drawn from 2 .. MaxWidth
MaxWordOps == 2      \* calls the caller of WordRAMInteger makes in one run

(***************************************************************************)
(* Helpers on integers and sequences (Python built-ins min, max, len).     *)
(***************************************************************************)
Range(s) == {s[i] : i \in DOMAIN s}

SeqMin(s) == CHOOSE v \in Range(s) : \A w \in Range(s) : v <= w

SeqMax(s) == CHOOSE v \in Range(s) : \A w \in Range(s) : v >= w

SeqsUpTo(S, n) == UNION {[1..k -> S] : k \in 0..n}

Values == (0 - 1)..MaxVal

(***************************************************************************)
(* algorithms/sumset.py                                                    *)
(***************************************************************************)
SumsetResult(s, alg, ops) ==
    [kind |-> "result", sumset |-> s, size |-> Cardinality(s),
     algorithm |-> alg, operations |-> ops]

\* NaiveBody adding x * y for x + y
NaiveBodyProduct(st, xv, yv) ==
    [result |-> st.result \cup {xv * yv}, operations |-> st.operations + 1]

\* The loop body of naive_sumset: result.add(x + y); operations += 1
NaiveBody(st, xv, yv) ==
    [result |-> st.result \cup {xv + yv}, operations |-> st.operations + 1]

RECURSIVE NaiveInner(_, _, _, _)
NaiveInner(st, xv, bs, j) ==
    IF j > Len(bs) THEN st
    ELSE NaiveInner(NaiveBody(st, xv, bs[j]), xv, bs, j + 1)

RECURSIVE NaiveOuter(_, _, _, _)
NaiveOuter(st, as, bs, i) ==
    IF i > Len(as) THEN st
    ELSE NaiveOuter(NaiveInner(st, as[i], bs, 1), as, bs, i + 1)

naive_sumset(as, bs) ==
    LET st == NaiveOuter([result |-> {}, operations |-> 0], as, bs, 1)
    IN  SumsetResult(st.result, "naive", st.operations)

\* A Python list store hit[idx] = True on a list of length n: a negative
\* index down to -n addresses from the end, anything else out of 0..n-1
\* raises IndexError.
ListStore(st, idx) ==
    LET n == st.len
    IN  IF st.error THEN st
        ELSE IF idx >= 0 /\ idx < n
             THEN [st EXCEPT !.hit = [st.hit EXCEPT ![idx] = TRUE],
                             !.slots = st.slots \cup {idx}]
        ELSE IF idx < 0 /\ idx >= 0 - n
             THEN [st EXCEPT !.hit = [st.hit EXCEPT ![idx + n] = TRUE],
                             !.slots = st.slots \cup {idx}]
        ELSE [st EXCEPT !.error = TRUE]

\* BucketBody counting a pair only when it marks a new slot
BucketBodyCountsNewSlots(st, xv, yv, min_sum) ==
    LET w == ListStore(st, (xv + yv) - min_sum)
    IN  IF w.error \/ w.hit = st.hit THEN w
        ELSE [w EXCEPT !.operations = w.operations + 1]

\* The loop body of bucket_sumset: hit[(x + y) - min_sum] = True; operations += 1
BucketBody(st, xv, yv, min_sum) ==
    LET w == ListStore(st, (xv + yv) - min_sum)
    IN  IF w.error THEN w ELSE [w EXCEPT !.operations = w.operations + 1]

RECURSIVE BucketInner(_, _, _, _, _)
BucketInner(st, xv, bs, j, min_sum) ==
    IF j > Len(bs) THEN st
    ELSE BucketInner(BucketBody(st, xv, bs[j], min_sum), xv, bs, j + 1, min_sum)

RECURSIVE BucketOuter(_, _, _, _, _)
BucketOuter(st, as, bs, i, min_sum) ==
    IF i > Len(as) THEN st
    ELSE BucketOuter(BucketInner(st, as[i], bs, 1, min_sum), as, bs, i + 1, min_sum)

\* BucketTable with a table one slot short of the attainable range
BucketTableOneShort(as, bs) ==
    LET min_sum == SeqMin(as) + SeqMin(bs)
        max_sum == SeqMax(as) + SeqMax(bs)
        n == max_sum - min_sum
    IN  BucketOuter([hit |-> [i \in 0..(n - 1) |-> FALSE], len |-> n,
                     slots |-> {}, operations |-> 0, error |-> FALSE],
                    as, bs, 1, min_sum)

\* The table of bucket_sumset after its pair loop
BucketTable(as, bs) ==
    LET min_sum == SeqMin(as) + SeqMin(bs)
        max_sum == SeqMax(as) + SeqMax(bs)
        n == max_sum - min_sum + 1
    IN  BucketOuter([hit |-> [i \in 0..(n - 1) |-> FALSE], len |-> n,
                     slots |-> {}, operations |-> 0, error |-> FALSE],
                    as, bs, 1, min_sum)

\* BucketSweep without the shift back by min_sum
BucketSweepNoShift(hit, min_sum) == {i : i \in {k \in DOMAIN hit : hit[k]}}

\* The sweep {i + min_sum for i, v in enumerate(hit) if v}
BucketSweep(hit, min_sum) == {i + min_sum : i \in {k \in DOMAIN hit : hit[k]}}

\* bucket_sumset without its guard: min() of an empty list raises
BucketEmptyRaises == [kind |-> "error", exc |-> "ValueError"]

\* if not a or not b: return SumsetResult(set(), 0, "bucket", 0)
BucketEmpty == SumsetResult({}, "bucket", 0)

bucket_sumset(as, bs) ==
    IF as = <<>> \/ bs = <<>> THEN BucketEmpty
    ELSE LET st == BucketTable(as, bs)
         IN  IF st.error THEN [kind |-> "error", exc |-> "IndexError"]
             ELSE SumsetResult(BucketSweep(st.hit, SeqMin(as) + SeqMin(bs)),
                               "bucket", st.operations)

Shifted(s) == [i \in DOMAIN s |-> s[i] - SeqMin(s)]

\* size = max(a_shifted) + max(b_shifted) + 1
SupportSize(as, bs) == SeqMax(Shifted(as)) + SeqMax(Shifted(bs)) + 1

RECURSIVE GrowPow2(_, _)
GrowPow2(f, size) == IF f < size THEN GrowPow2(2 * f, size) ELSE f

\* FftSize without the final doubling
FftSizeNoPad(size) == GrowPow2(1, size)

\* fft_size: doubled from 1 up to size, then doubled once more
FftSize(size) == 2 * GrowPow2(1, size)

\* np.zeros(n) with poly[x] = 1 for every x of the shifted sequence
Poly(s, n) == [i \in 0..(n - 1) |-> IF i \in Range(s) THEN 1 ELSE 0]

RECURSIVE ConvSum(_, _, _, _, _)
ConvSum(pa, pb, n, i, j) ==
    IF j >= n THEN 0
    ELSE pa[j] * pb[(i - j) % n] + ConvSum(pa, pb, n, i, j + 1)

\* ifft(fft(poly_a) * fft(poly_b)), taken exactly: the circular convolution
\* of length n
CircularConvolution(pa, pb, n) == [i \in 0..(n - 1) |-> ConvSum(pa, pb, n, i, 0)]

\* c > 0.5
AboveThreshold(c) == 2 * c > 1

\* int(np.log2(n))
RECURSIVE IntLog2(_)
IntLog2(n) == IF n <= 1 THEN 0 ELSE 1 + IntLog2(n \div 2)

\* FftCollect shifting back by min_a only
FftCollectNoShiftB(product, min_a, min_b) ==
    {i + min_a : i \in {k \in DOMAIN product : AboveThreshold(product[k])}}

\* {i + min_a + min_b for i, c in enumerate(product) if c > 0.5}
FftCollect(product, min_a, min_b) ==
    {i + min_a + min_b : i \in {k \in DOMAIN product : AboveThreshold(product[k])}}

fft_sumset(as, bs) ==
    IF as = <<>> \/ bs = <<>> THEN SumsetResult({}, "fft", 0)
    ELSE LET size == SupportSize(as, bs)
             fft_size == FftSize(size)
             sa == Shifted(as)
             sb == Shifted(bs)
         IN  IF SeqMax(sa) >= fft_size \/ SeqMax(sb) >= fft_size
             THEN [kind |-> "error", exc |-> "IndexError"]
             ELSE LET product == CircularConvolution(Poly(sa, fft_size),
                                                     Poly(sb, fft_size), fft_size)
                  IN  SumsetResult(FftCollect(product, SeqMin(as), SeqMin(bs)),
                                   "fft", 3 * fft_size * IntLog2(fft_size))

(***************************************************************************)
(* The sumset specification: a caller holding two sequences runs the       *)
(* three algorithms on them, in any order.                                 *)
(***************************************************************************)
ExactIdle ==
    /\ x = None
    /\ counter = None
    /\ calls = None
    /\ steps = 0
    /\ last = None
    /\ chain = None

WordIdle ==
    /\ wa = None
    /\ wb = None
    /\ word_ram_counter = None
    /\ wsteps = 0
    /\ wlast = None

OptIdle ==
    /\ hc = None
    /\ gd = None

LifeIdle ==
    /\ ex = None
    /\ th = None

InitSumset ==
    /\ a \in SeqsUpTo(Values, MaxLen)
    /\ b \in SeqsUpTo(Values, MaxLen)
    /\ naive = None
    /\ bucket = None
    /\ fft = None
    /\ ExactIdle
    /\ WordIdle
    /\ OptIdle
    /\ LifeIdle

RunNaive ==
    /\ naive = None
    /\ naive' = naive_sumset(a, b)
    /\ UNCHANGED <<a, b, bucket, fft, nonSumsetVars>>

RunBucket ==
    /\ bucket = None
    /\ bucket' = bucket_sumset(a, b)
    /\ UNCHANGED <<a, b, naive, fft, nonSumsetVars>>

RunFft ==
    /\ fft = None
    /\ fft' = fft_sumset(a, b)
    /\ UNCHANGED <<a, b, naive, bucket, nonSumsetVars>>

NextSumset == RunNaive \/ RunBucket \/ RunFft

SpecSumset == InitSumset /\ [][NextSumset]_vars

(***************************************************************************)
(* Properties of the sumset algorithms.                                    *)
(***************************************************************************)
\* The mathematical sumset {x + y : x in A, y in B}
MathSumset(as, bs) == {as[i] + bs[j] : i \in DOMAIN as, j \in DOMAIN bs}

Results == {naive, bucket, fft}

Done(r) == r # None

NonEmptyInputs == a # <<>> /\ b # <<>>

Max2(m, n) == IF m >= n THEN m ELSE n

\* C1: naive_sumset and bucket_sumset both return the mathematical sumset
\* {x + y : x in A, y in B} of their inputs, whatever the order, duplicates
\* or signs of the inputs, and size is the cardinality of that set.
C1_NaiveBucketAreSumset ==
    \A r \in {naive, bucket} :
        Done(r) => /\ r.kind = "result"
                   /\ r.sumset = MathSumset(a, b)
                   /\ r.size = Cardinality(MathSumset(a, b))

C1_Witness ==
    /\ Done(naive) /\ Done(bucket)
    /\ Len(a) = 2 /\ a[1] > a[2] /\ a[2] < 0
    /\ Len(b) = 2 /\ b[1] = b[2]
    /\ naive.size = 2 /\ bucket.size = 2

\* C2: for nonempty inputs fft_sumset, with the convolution taken exactly,
\* returns the same set as naive_sumset: index i is reported, as
\* i + min(A) + min(B), exactly when some pair has shifted sum i, and none
\* is reported through circular wraparound.
C2_FftEqualsNaive ==
    (NonEmptyInputs /\ Done(fft)) =>
        /\ fft.kind = "result"
        /\ Done(naive) => fft.sumset = naive.sumset
        /\ LET n == FftSize(SupportSize(a, b))
               hitIdx == {i \in 0..(n - 1) :
                            \E j \in DOMAIN a, k \in DOMAIN b :
                                (a[j] - SeqMin(a)) + (b[k] - SeqMin(b)) = i}
           IN  fft.sumset = {i + SeqMin(a) + SeqMin(b) : i \in hitIdx}

C2_Witness ==
    /\ NonEmptyInputs /\ Done(fft) /\ Done(naive)
    /\ SupportSize(a, b) = 2 * MaxVal + 3
    /\ SeqMin(b) < 0
    /\ fft.size >= 3

\* C3 as stated: for nonempty inputs of lengths n and m, every algorithm's
\* size is at most n*m and at least max(n, m).
C3_SizeBoundsByLength ==
    \A r \in Results :
        (NonEmptyInputs /\ Done(r)) =>
            /\ r.kind = "result"
            /\ r.size <= Len(a) * Len(b)
            /\ r.size >= Max2(Len(a), Len(b))

\* C3 amended: for nonempty inputs, every algorithm's size is at most n*m
\* (sequence lengths) and at least the larger of the numbers of distinct
\* values in A and in B.
C3_SizeBoundsByDistinct ==
    \A r \in Results :
        (NonEmptyInputs /\ Done(r)) =>
            /\ r.kind = "result"
            /\ r.size <= Len(a) * Len(b)
            /\ r.size >= Max2(Cardinality(Range(a)), Cardinality(Range(b)))

C3_Witness ==
    /\ Done(naive) /\ Done(bucket) /\ Done(fft)
    /\ Len(a) = 2 /\ a[1] = a[2] /\ Len(b) = 1
    /\ naive.size = 1 /\ bucket.size = 1 /\ fft.size = 1

\* C4: with A or B empty every algorithm returns normally an empty sumset
\* with size 0 and operations 0.
C4_EmptyInput ==
    \A r \in Results :
        ((a = <<>> \/ b = <<>>) /\ Done(r)) =>
            /\ r.kind = "result"
            /\ r.sumset = {}
            /\ r.size = 0
            /\ r.operations = 0

C4_Witness ==
    /\ a = <<>> /\ b # <<>>
    /\ Done(naive) /\ Done(bucket) /\ Done(fft)

\* C5: naive_sumset and bucket_sumset report operations = len(A) * len(B),
\* one per pair of positions, duplicates counted; the sweep adds nothing.
C5_OperationsArePairs ==
    \A r \in {naive, bucket} :
        Done(r) => /\ r.kind = "result"
                   /\ r.operations = Len(a) * Len(b)

C5_Witness ==
    /\ Done(naive) /\ Done(bucket)
    /\ Len(a) = 2 /\ a[1] = a[2] /\ Len(b) = 2
    /\ bucket.operations = 4 /\ naive.operations = 4
    /\ bucket.size < 4

IsPow2(n) == \E k \in 0..n : 2 ^ k = n

ExactLog2(n) == CHOOSE k \in 0..n : 2 ^ k = n

Spread(s) == SeqMax(s) - SeqMin(s)

\* C6: for nonempty inputs the transform length N of fft_sumset is a power
\* of two with N >= 2*S, S = (max(A)-min(A)) + (max(B)-min(B)) + 1, and
\* operations = 3 * N * log2(N).
C6_TransformLength ==
    (NonEmptyInputs /\ Done(fft)) =>
        LET n == FftSize(SupportSize(a, b))
            s == Spread(a) + Spread(b) + 1
        IN  /\ IsPow2(n)
            /\ n >= 2 * s
            /\ fft.kind = "result"
            /\ fft.operations = 3 * n * ExactLog2(n)

C6_Witness ==
    /\ NonEmptyInputs /\ Done(fft)
    /\ Spread(a) + Spread(b) + 1 = 3
    /\ fft.operations = 72

(***************************************************************************)
(* models/real_ram.py: the exact values.  A sympy expression is modelled   *)
(* by its canonical form: a rational n/d in lowest terms with d > 0, nan   *)
(* (0/0), zoo (complex infinity, p/0), the square root of a positive       *)
(* rational that is no perfect square, or an imaginary number.             *)
(***************************************************************************)
Abs(n) == IF n < 0 THEN 0 - n ELSE n

RECURSIVE Gcd(_, _)
Gcd(m, n) == IF n = 0 THEN m ELSE Gcd(n, m % n)

\* sp.Rational(n, d), d # 0: lowest terms, positive denominator
Rational(n, d) ==
    LET g == Gcd(Abs(n), Abs(d))
        sgn == IF d < 0 THEN 0 - 1 ELSE 1
    IN  [t |-> "rat", n |-> sgn * (n \div g), d |-> sgn * (d \div g)]

NaN == [t |-> "nan"]

ComplexInfinity == [t |-> "zoo"]

\* SymAdd adding the numerators without cross-multiplying
SymAddDropsDenominator(p, q) ==
    IF p.t = "nan" \/ q.t = "nan" THEN NaN
    ELSE Rational(p.n + q.n, p.d * q.d)

\* self._symbolic + other._symbolic; nan absorbs every operation
SymAdd(p, q) ==
    IF p.t = "nan" \/ q.t = "nan" THEN NaN
    ELSE Rational(p.n * q.d + q.n * p.d, p.d * q.d)

\* self._symbolic - other._symbolic
SymSub(p, q) ==
    IF p.t = "nan" \/ q.t = "nan" THEN NaN
    ELSE Rational(p.n * q.d - q.n * p.d, p.d * q.d)

\* self._symbolic * other._symbolic
SymMul(p, q) ==
    IF p.t = "nan" \/ q.t = "nan" THEN NaN
    ELSE Rational(p.n * q.n, p.d * q.d)

\* self._symbolic / other._symbolic: sympy raises nothing on a zero divisor,
\* 0/0 is nan and p/0 is zoo
SymDiv(p, q) ==
    IF p.t = "nan" \/ q.t = "nan" THEN NaN
    ELSE IF q.n = 0 THEN (IF p.n = 0 THEN NaN ELSE ComplexInfinity)
    ELSE Rational(p.n * q.d, p.d * q.n)

IsSquare(n) == \E k \in 0..n : k * k = n

IntSqrt(n) == CHOOSE k \in 0..n : k * k = n

\* sp.sqrt(self._symbolic)
SymSqrt(p) ==
    IF p.t = "nan" THEN NaN
    ELSE IF p.n < 0 THEN [t |-> "imag", n |-> p.n, d |-> p.d]
    ELSE IF IsSquare(p.n) /\ IsSquare(p.d) THEN Rational(IntSqrt(p.n), IntSqrt(p.d))
    ELSE [t |-> "sqrt", n |-> p.n, d |-> p.d]

Raise(e) == [kind |-> "error", exc |-> e]

\* ExactReal.__init__, sp.Expr branch: float(value.evalf(100)) raises
\* TypeError for zoo and for a non-real value, and succeeds for nan
FromExpr(sym) ==
    IF sym.t \in {"zoo", "imag"} THEN Raise("TypeError")
    ELSE [kind |-> "exact", sym |-> sym]

\* ExactReal.__init__, Fraction branch: sp.Rational(numerator, denominator)
FromFraction(n, d) == [kind |-> "exact", sym |-> Rational(n, d)]

\* ExactReal.__init__, int branch: sp.Integer(value)
FromInt(v) == [kind |-> "exact", sym |-> [t |-> "rat", n |-> v, d |-> 1]]

\* other if isinstance(other, ExactReal) else ExactReal(other)
Coerce(other) ==
    IF other.kind = "exact" THEN other ELSE FromInt(other.v)

(***************************************************************************)
(* models/real_ram.py: OperationCost and the counting operations.  Each    *)
(* operation takes the counter and returns the counter after the call      *)
(* together with the call's outcome (a value, a boolean or an exception).  *)
(***************************************************************************)
\* OperationCost()
OperationCost ==
    [additions |-> 0, multiplications |-> 0, divisions |-> 0,
     comparisons |-> 0, square_roots |-> 0, transcendental |-> 0]

\* _operation_counter.<field> += 1
Bump(cnt, f) == [cnt EXCEPT ![f] = @ + 1]

Call(cnt, out) == [cnt |-> cnt, out |-> out]

ExactReal_add(cnt, self, other) ==
    Call(Bump(cnt, "additions"), FromExpr(SymAdd(self.sym, Coerce(other).sym)))

ExactReal_radd(cnt, self, other) == ExactReal_add(cnt, self, other)

ExactReal_sub(cnt, self, other) ==
    Call(Bump(cnt, "additions"), FromExpr(SymSub(self.sym, Coerce(other).sym)))

ExactReal_mul(cnt, self, other) ==
    Call(Bump(cnt, "multiplications"), FromExpr(SymMul(self.sym, Coerce(other).sym)))

\* ExactReal_rmul counting the multiplication itself before delegating
ExactReal_rmul_counts_twice(cnt, self, other) ==
    ExactReal_mul(Bump(cnt, "multiplications"), self, other)

ExactReal_rmul(cnt, self, other) == ExactReal_mul(cnt, self, other)

ExactReal_truediv(cnt, self, other) ==
    Call(Bump(cnt, "divisions"), FromExpr(SymDiv(self.sym, Coerce(other).sym)))

Bool(v) == [kind |-> "bool", val |-> v]

\* diff < 0 on a simplified sympy expression: an inequality on nan raises
\* TypeError ("Invalid NaN comparison")
SymLessThanZero(diff) ==
    IF diff.t = "nan" THEN Raise("TypeError") ELSE Bool(diff.n < 0)

\* diff == 0 on a simplified sympy expression: structural equality, which
\* never raises and is False for everything but the number 0
SymEqualsZero(diff) ==
    IF diff.t = "nan" THEN Bool(FALSE) ELSE Bool(diff.n = 0)

\* bool(sp.simplify(self._symbolic - other._symbolic) < 0)
ExactReal_lt(cnt, self, other) ==
    Call(Bump(cnt, "comparisons"),
         SymLessThanZero(SymSub(self.sym, Coerce(other).sym)))

\* bool(sp.simplify(self._symbolic - other._symbolic) == 0)
ExactReal_eq(cnt, self, other) ==
    Call(Bump(cnt, "comparisons"),
         SymEqualsZero(SymSub(self.sym, Coerce(other).sym)))

\* object.__ne__: the inverse of __eq__
ExactReal_ne(cnt, self, other) ==
    LET e == ExactReal_eq(cnt, self, other)
    IN  IF e.out.kind = "error" THEN e ELSE Call(e.cnt, Bool(~e.out.val))

\* functools.total_ordering, _le_from_lt: op_result or self == other
ExactReal_le(cnt, self, other) ==
    LET l == ExactReal_lt(cnt, self, other)
    IN  IF l.out.kind = "error" \/ l.out.val THEN l
        ELSE ExactReal_eq(l.cnt, self, other)

\* functools.total_ordering, _gt_from_lt: not op_result and self != other
ExactReal_gt(cnt, self, other) ==
    LET l == ExactReal_lt(cnt, self, other)
    IN  IF l.out.kind = "error" THEN l
        ELSE IF l.out.val THEN Call(l.cnt, Bool(FALSE))
        ELSE ExactReal_ne(l.cnt, self, other)

\* functools.total_ordering, _ge_from_lt: not op_result
ExactReal_ge(cnt, self, other) ==
    LET l == ExactReal_lt(cnt, self, other)
    IN  IF l.out.kind = "error" THEN l ELSE Call(l.cnt, Bool(~l.out.val))

ExactReal_sqrt(cnt, self) ==
    Call(Bump(cnt, "square_roots"), FromExpr(SymSqrt(self.sym)))

\* float(self._numeric); the float's value is not modelled
ExactReal_to_float(cnt, self) == Call(cnt, [kind |-> "float"])

\* OperationCost.reset
Reset(cnt) ==
    [additions |-> 0, multiplications |-> 0, divisions |-> 0,
     comparisons |-> 0, square_roots |-> 0, transcendental |-> 0]

(***************************************************************************)
(* The ExactReal specification: one caller holds a rational ExactReal x    *)
(* and calls the operations on it with rational right operands, given as   *)
(* ExactReal or as plain ints; it goes on with the result whenever the     *)
(* result is a rational ExactReal or nan, the one value of the model whose *)
(* difference with a number has no definite sign.                          *)
(***************************************************************************)
Fractions ==
    {Rational(n, d) : n \in (0 - 1)..MaxNum, d \in 1..MaxDen}

\* The right operands: each rational as an ExactReal, each integer also as
\* a plain Python int
ExactOperands == {FromFraction(f.n, f.d) : f \in Fractions}

PlainOperands == {[kind |-> "int", v |-> n] : n \in (0 - 1)..MaxNum}

Operands == ExactOperands \cup PlainOperands

NoCalls ==
    [add |-> 0, radd |-> 0, sub |-> 0, mul |-> 0, rmul |-> 0, truediv |-> 0,
     sqrt |-> 0, to_float |-> 0, construct |-> 0,
     lt |-> 0, eq |-> 0, ne |-> 0, le |-> 0, gt |-> 0, ge |-> 0]

SumsetIdle ==
    /\ a = <<>>
    /\ b = <<>>
    /\ naive = None
    /\ bucket = None
    /\ fft = None

InitExact ==
    /\ x \in {FromFraction(f.n, f.d) : f \in Fractions}
    /\ counter = OperationCost
    /\ calls = NoCalls
    /\ steps = 0
    /\ last = None
    /\ chain = None
    /\ SumsetIdle
    /\ WordIdle
    /\ OptIdle
    /\ LifeIdle

IsRationalValue(v) == v.kind = "exact" /\ v.sym.t = "rat"

\* The results the caller goes on with: rationals and nan
Continues(v) == v.kind = "exact" /\ v.sym.t \in {"rat", "nan"}

\* The bookkeeping common to every call op(x, other) with result r
Record(op, other, r) ==
    /\ steps < MaxOps
    /\ steps' = steps + 1
    /\ counter' = r.cnt
    /\ calls' = [calls EXCEPT ![op] = @ + 1]
    /\ last' = [kind |-> "call", op |-> op, self |-> x, other |-> other,
                before |-> counter, out |-> r.out]
    /\ x' = IF Continues(r.out) THEN r.out ELSE x
    /\ chain' = IF op = "truediv" /\ IsRationalValue(r.out)
                   THEN [kind |-> "divided", start |-> x, by |-> Coerce(other)]
                ELSE IF op = "mul" /\ chain.kind = "divided"
                        /\ chain.by = Coerce(other) /\ IsRationalValue(r.out)
                   THEN [kind |-> "restored", start |-> chain.start, by |-> chain.by]
                ELSE None
    /\ UNCHANGED nonExactVars

Add == \E o \in Operands : Record("add", o, ExactReal_add(counter, x, o))

RAdd ==
    \E o \in PlainOperands :
        Record("radd", o, ExactReal_radd(counter, x, o))

Sub == \E o \in Operands : Record("sub", o, ExactReal_sub(counter, x, o))

Mul == \E o \in Operands : Record("mul", o, ExactReal_mul(counter, x, o))

RMul ==
    \E o \in PlainOperands :
        Record("rmul", o, ExactReal_rmul(counter, x, o))

TrueDiv == \E o \in Operands : Record("truediv", o, ExactReal_truediv(counter, x, o))

Sqrt == Record("sqrt", None, ExactReal_sqrt(counter, x))

ToFloat == Record("to_float", None, ExactReal_to_float(counter, x))

Construct ==
    \/ \E f \in Fractions :
           Record("construct", None, Call(counter, FromFraction(f.n, f.d)))
    \/ Record("construct", None, Call(counter, FromExpr(NaN)))

Lt == \E o \in ExactOperands : Record("lt", o, ExactReal_lt(counter, x, o))

Eq == \E o \in ExactOperands : Record("eq", o, ExactReal_eq(counter, x, o))

Ne == \E o \in ExactOperands : Record("ne", o, ExactReal_ne(counter, x, o))

Le == \E o \in ExactOperands : Record("le", o, ExactReal_le(counter, x, o))

Gt == \E o \in ExactOperands : Record("gt", o, ExactReal_gt(counter, x, o))

Ge == \E o \in ExactOperands : Record("ge", o, ExactReal_ge(counter, x, o))

\* reset_operation_count()
ResetOperationCount ==
    /\ steps < MaxOps
    /\ steps' = steps + 1
    /\ counter' = Reset(counter)
    /\ calls' = NoCalls
    /\ last' = [kind |-> "reset"]
    /\ chain' = None
    /\ UNCHANGED <<x, nonExactVars>>

NextExact ==
    \/ Add \/ RAdd \/ Sub \/ Mul \/ RMul \/ TrueDiv
    \/ Sqrt \/ ToFloat \/ Construct
    \/ Lt \/ Eq \/ Ne \/ Le \/ Gt \/ Ge
    \/ ResetOperationCount

SpecExact == InitExact /\ [][NextExact]_vars

(***************************************************************************)
(* Properties of ExactReal and its counter.                                *)
(***************************************************************************)
Called(ops) == last.kind = "call" /\ last.op \in ops

ArithmeticOps == {"add", "radd", "sub", "mul", "rmul", "truediv"}

CompareOps == {"lt", "eq", "ne", "le", "gt", "ge"}

\* The ExactReal built from the exact rational p (+, -, *, /) q
ExactOf(op, p, q) ==
    CASE op \in {"add", "radd"} -> FromFraction(p.n * q.d + q.n * p.d, p.d * q.d)
      [] op = "sub" -> FromFraction(p.n * q.d - q.n * p.d, p.d * q.d)
      [] op \in {"mul", "rmul"} -> FromFraction(p.n * q.n, p.d * q.d)
      [] op = "truediv" -> FromFraction(p.n * q.d, p.d * q.n)

ComparesEqual(v, w) == ExactReal_eq(counter, v, w).out.val

\* C7: for rationals p and q (q nonzero for divide) the result of add,
\* subtract, multiply or divide compares equal to the ExactReal built from
\* the exact p+q, p-q, p*q or p/q, and (p divide q) multiply q compares
\* equal to p.
C7_ExactArithmetic ==
    /\ (Called(ArithmeticOps) /\ IsRationalValue(last.self)
            /\ ~(last.op = "truediv" /\ Coerce(last.other).sym.n = 0)) =>
           /\ IsRationalValue(last.out)
           /\ ComparesEqual(last.out,
                            ExactOf(last.op, last.self.sym, Coerce(last.other).sym))
    /\ chain.kind = "restored" => ComparesEqual(x, chain.start)

C7_Witness ==
    /\ chain.kind = "restored"
    /\ chain.by.sym.d > 1
    /\ chain.start.sym.d > 1
    /\ x = chain.start
    /\ last.self.sym.d = 1

OwnCounter(op) ==
    CASE op \in {"add", "radd", "sub"} -> "additions"
      [] op \in {"mul", "rmul"} -> "multiplications"
      [] op = "truediv" -> "divisions"
      [] op = "sqrt" -> "square_roots"

\* C8: since the last reset, additions = add + subtract calls,
\* multiplications = multiply calls, divisions = divide calls, square_roots
\* = sqrt calls; each such call raises its own counter by one and leaves
\* the other five alone, with an ExactReal or a plain right operand and
\* through the reflected form; construction and to_float change no counter.
C8_CountersMatchCalls ==
    /\ counter.additions = calls.add + calls.radd + calls.sub
    /\ counter.multiplications = calls.mul + calls.rmul
    /\ counter.divisions = calls.truediv
    /\ counter.square_roots = calls.sqrt
    /\ Called(ArithmeticOps \cup {"sqrt"}) =>
           counter = Bump(last.before, OwnCounter(last.op))
    /\ Called({"construct", "to_float"}) => counter = last.before

C8_Witness ==
    /\ Called({"rmul"})
    /\ last.other.kind = "int"
    /\ calls.sub = 1
    /\ counter.additions = 1
    /\ counter.multiplications = 1

\* C9: every comparison a caller requests (<, ==, <=, >, >=, !=) raises
\* the comparisons counter by exactly one and changes no other counter.
C9_ComparisonCountsOnce ==
    Called(CompareOps) => counter = Bump(last.before, "comparisons")

\* C10: divide by an ExactReal whose exact value is zero fails with a
\* division-by-zero error for every dividend and never returns a value.
C10_DivideByZeroFails ==
    (Called({"truediv"}) /\ Coerce(last.other).sym.n = 0) =>
        last.out = Raise("ZeroDivisionError")

\* The difference of the operands of the last call has no definite sign
Unresolved == SymSub(last.self.sym, Coerce(last.other).sym).t = "nan"

\* C11: when the difference of the operands cannot be reduced to a definite
\* sign, the ordering comparison and the equality comparison both fail;
\* neither returns a boolean.
C11_UnresolvedComparisonFails ==
    (Called({"lt", "eq"}) /\ Unresolved) => last.out.kind = "error"

(***************************************************************************)
(* models/word_ram.py: WordRAMInteger and its WordRAMCost counter.  Python *)
(* integers are unbounded, so value is a mathematical integer; word sizes  *)
(* are kept small so that results beyond the width are reached.  An        *)
(* operation returns the counter after the call, its outcome and the two   *)
(* operand objects as the call leaves them.                                *)
(***************************************************************************)
\* WordRAMCost()
WordRAMCost == [word_operations |-> 0, comparisons |-> 0, memory_accesses |-> 0]

\* WordRAMInteger.__init__: value and word_size stored as given
WordRAMInteger(value, word_size) ==
    [kind |-> "word", value |-> value, word_size |-> word_size]

\* other.value if isinstance(other, WordRAMInteger) else other
OtherVal(other) == IF other.kind = "word" THEN other.value ELSE other.v

\* WordRAMInteger._track_op
TrackOp(cnt) == [cnt EXCEPT !.word_operations = @ + 1]

WordCall(cnt, out, self, other) ==
    [cnt |-> cnt, out |-> out, self |-> self, other |-> other]

WordRAMInteger_add(cnt, self, other) ==
    WordCall(TrackOp(cnt),
             WordRAMInteger(self.value + OtherVal(other), self.word_size),
             self, other)

WordRAMInteger_mul(cnt, self, other) ==
    WordCall(TrackOp(cnt),
             WordRAMInteger(self.value * OtherVal(other), self.word_size),
             self, other)

\* WordRAMInteger_lt tracking a word operation as well
WordRAMInteger_lt_tracks_op(cnt, self, other) ==
    WordCall(TrackOp([cnt EXCEPT !.comparisons = @ + 1]),
             Bool(self.value < OtherVal(other)), self, other)

WordRAMInteger_lt(cnt, self, other) ==
    WordCall([cnt EXCEPT !.comparisons = @ + 1],
             Bool(self.value < OtherVal(other)), self, other)

(***************************************************************************)
(* The WordRAMInteger specification: a caller holds two objects wa and wb  *)
(* whose values fit their word sizes, calls wa + other, wa * other and     *)
(* wa < other with other being wb or wb's value as a plain int, and may    *)
(* rebind wa to the result of the last call.                               *)
(***************************************************************************)
WordMin(word_size) == 0 - 2 ^ (word_size - 1)

WordMax(word_size) == 2 ^ (word_size - 1) - 1

WordInputs ==
    UNION {{WordRAMInteger(val, ws) : val \in WordMin(ws)..WordMax(ws)} :
              ws \in 2..MaxWidth}

InitWord ==
    /\ wa \in WordInputs
    /\ wb \in WordInputs
    /\ word_ram_counter = WordRAMCost
    /\ wsteps = 0
    /\ wlast = None
    /\ SumsetIdle
    /\ ExactIdle
    /\ OptIdle
    /\ LifeIdle

\* The right operand: wb itself or its value as a plain int
WordOperands == {wb, [kind |-> "int", v |-> wb.value]}

WordRecord(op, other, r) ==
    /\ wsteps < MaxWordOps
    /\ wsteps' = wsteps + 1
    /\ word_ram_counter' = r.cnt
    /\ wa' = r.self
    /\ wb' = IF other.kind = "word" THEN r.other ELSE wb
    /\ wlast' = [kind |-> "call", op |-> op, self |-> wa, other |-> other,
                 self_after |-> r.self, other_after |-> r.other,
                 before |-> word_ram_counter, out |-> r.out]
    /\ UNCHANGED nonWordVars

WordAdd ==
    \E o \in WordOperands :
        WordRecord("add", o, WordRAMInteger_add(word_ram_counter, wa, o))

WordMul ==
    \E o \in WordOperands :
        WordRecord("mul", o, WordRAMInteger_mul(word_ram_counter, wa, o))

WordLt ==
    \E o \in WordOperands :
        WordRecord("lt", o, WordRAMInteger_lt(word_ram_counter, wa, o))

\* wa = <result of the last call>
WordRebind ==
    /\ wlast.kind = "call"
    /\ wlast.out.kind = "word"
    /\ wa # wlast.out
    /\ wa' = wlast.out
    /\ UNCHANGED <<wb, word_ram_counter, wsteps, wlast, nonWordVars>>

NextWord == WordAdd \/ WordMul \/ WordLt \/ WordRebind

SpecWord == InitWord /\ [][NextWord]_vars

(***************************************************************************)
(* Properties of WordRAMInteger.                                           *)
(***************************************************************************)
WordCalled(ops) == wlast.kind = "call" /\ wlast.op \in ops

\* C12: add and multiply, with a WordRAMInteger or a plain int operand,
\* raise word_operations by one, leave comparisons and memory_accesses
\* alone and return a new value with the left operand's word size; the
\* comparison raises comparisons by one and leaves word_operations alone;
\* no operand is mutated.
C12_WordCounters ==
    /\ WordCalled({"add", "mul"}) =>
           /\ word_ram_counter = [wlast.before EXCEPT !.word_operations = @ + 1]
           /\ wlast.out.kind = "word"
           /\ wlast.out.word_size = wlast.self.word_size
    /\ WordCalled({"lt"}) =>
           /\ word_ram_counter = [wlast.before EXCEPT !.comparisons = @ + 1]
           /\ wlast.out.kind = "bool"
    /\ WordCalled({"add", "mul", "lt"}) =>
           /\ wlast.self_after = wlast.self
           /\ wlast.other_after = wlast.other

C12_Witness ==
    /\ WordCalled({"mul"})
    /\ wlast.other.kind = "word"
    /\ wlast.other.word_size > wlast.self.word_size
    /\ word_ram_counter.word_operations = 1
    /\ word_ram_counter.comparisons = 1

InWord(val, word_size) == val \in WordMin(word_size)..WordMax(word_size)

\* C13: add and multiply on a WordRAMInteger of width w never yield a value
\* outside [-2^(w-1), 2^(w-1)-1]: the result is wrapped into the range or
\* the call fails with Overflow.
C13_ResultFitsWidth ==
    WordCalled({"add", "mul"}) =>
        \/ wlast.out = Raise("OverflowError")
        \/ /\ wlast.out.kind = "word"
           /\ InWord(wlast.out.value, wlast.self.word_size)

(***************************************************************************)
(* algorithms/geometric.py: hill_climb.  A configuration is a pair of      *)
(* points of the unit square on a grid: the coordinate k stands for        *)
(* k / Scale, and the noise numpy draws from the seeded generator is any   *)
(* offset of one grid step at most per coordinate (every seed).  With two  *)
(* points the centroid is the midpoint, each point lies half the distance  *)
(* from it, and the cost is the distance between the two points; costs are *)
(* only ever compared, so a cost is held as its square, in grid units.     *)
(***************************************************************************)
Scale == 2           \* the unit interval is the grid 0 .. Scale
MaxSteps == 2        \* hill_climb's steps is drawn from 0 .. MaxSteps

Coords == 0..Scale

Point == Coords \X Coords

\* The points handed to hill_climb: any first point, and a second point in
\* the lower left or the upper right corner of the square
Inputs == Point \X {<<0, 0>>, <<Scale, Scale>>}

\* np.random.uniform(-step_size, step_size, best.shape), step_size one grid step
Noise == LET d == (0 - 1)..1 IN (d \X d) \X (d \X d)

\* cost(pts): the sum of the distances of the points to their centroid
Cost(pts) ==
    LET dx == pts[1][1] - pts[2][1]
        dy == pts[1][2] - pts[2][2]
    IN  dx * dx + dy * dy

\* np.clip(v, 0, 1), one coordinate
Clip(v) == IF v < 0 THEN 0 ELSE IF v > Scale THEN Scale ELSE v

\* np.clip(best + noise, 0, 1)
Candidate(best, noise) ==
    <<<<Clip(best[1][1] + noise[1][1]), Clip(best[1][2] + noise[1][2])>>,
      <<Clip(best[2][1] + noise[2][1]), Clip(best[2][2] + noise[2][2])>>>>

\* Accepts taking a candidate of equal cost too
AcceptsTies(c_cost, best_cost) == c_cost <= best_cost

\* if c_cost < best_cost
Accepts(c_cost, best_cost) == c_cost < best_cost

\* OptimizationResult reporting the evaluations made inside the loop only
HillClimbResultLoopEvals(best, best_cost, nsteps, func_evals) ==
    [kind |-> "result", optimal_value |-> best_cost, optimal_point |-> best,
     iterations |-> nsteps, function_evaluations |-> func_evals - 1,
     gradient_evaluations |-> 0, converged |-> TRUE]

\* return OptimizationResult(...)
HillClimbResult(best, best_cost, nsteps, func_evals) ==
    [kind |-> "result", optimal_value |-> best_cost, optimal_point |-> best,
     iterations |-> nsteps, function_evaluations |-> func_evals,
     gradient_evaluations |-> 0, converged |-> TRUE]

\* hill_climb(points, steps) up to the loop: best, best_cost, func_evals
InitHillClimb ==
    /\ \E pts \in Inputs, n \in 0..MaxSteps :
           hc = [pc |-> "loop", points |-> pts, steps |-> n,
                 best |-> pts, best_cost |-> Cost(pts), func_evals |-> 1,
                 iteration |-> 0, tried |-> None, result |-> None]
    /\ gd = None
    /\ SumsetIdle
    /\ ExactIdle
    /\ WordIdle
    /\ LifeIdle

\* One pass of  for _ in range(steps)
HillStep ==
    /\ hc.pc = "loop"
    /\ hc.iteration < hc.steps
    /\ \E noise \in Noise :
           LET candidate == Candidate(hc.best, noise)
               c_cost == Cost(candidate)
               accept == Accepts(c_cost, hc.best_cost)
           IN  hc' = [hc EXCEPT
                         !.best = IF accept THEN candidate ELSE @,
                         !.best_cost = IF accept THEN c_cost ELSE @,
                         !.func_evals = @ + 1,
                         !.iteration = @ + 1,
                         !.tried = [candidate |-> candidate, c_cost |-> c_cost,
                                    best |-> hc.best, best_cost |-> hc.best_cost]]
    /\ UNCHANGED <<gd, nonOptVars>>

\* range(steps) is exhausted: return
HillReturn ==
    /\ hc.pc = "loop"
    /\ hc.iteration = hc.steps
    /\ hc' = [hc EXCEPT !.pc = "done",
                        !.result = HillClimbResult(hc.best, hc.best_cost,
                                                   hc.steps, hc.func_evals)]
    /\ UNCHANGED <<gd, nonOptVars>>

NextHillClimb == HillStep \/ HillReturn

SpecHillClimb == InitHillClimb /\ [][NextHillClimb]_vars

(***************************************************************************)
(* Properties of hill_climb.                                               *)
(***************************************************************************)
\* C14: the best cost never increases and is always the cost of the best
\* configuration; a step takes the candidate exactly when it costs strictly
\* less, and leaves best and best cost alone on a tie or a worse candidate;
\* the returned optimal_value is at most the cost of the input.
C14_BestCostMonotone ==
    /\ hc.best_cost = Cost(hc.best)
    /\ hc.best_cost <= Cost(hc.points)
    /\ hc.tried # None =>
           /\ hc.best_cost <= hc.tried.best_cost
           /\ hc.tried.c_cost < hc.tried.best_cost =>
                  hc.best = hc.tried.candidate /\ hc.best_cost = hc.tried.c_cost
           /\ hc.tried.c_cost >= hc.tried.best_cost =>
                  hc.best = hc.tried.best /\ hc.best_cost = hc.tried.best_cost
    /\ hc.pc = "done" =>
           /\ hc.result.optimal_value <= Cost(hc.points)
           /\ hc.result.optimal_value = Cost(hc.result.optimal_point)

\* A tie with a different configuration was rejected after an improvement
C14_Witness ==
    /\ hc.pc = "done"
    /\ hc.tried # None
    /\ hc.tried.c_cost = hc.tried.best_cost
    /\ hc.tried.candidate # hc.tried.best
    /\ hc.result.optimal_value < Cost(hc.points)

\* C15: hill_climb returns after exactly `steps` passes of the loop,
\* whatever the candidates cost, with iterations = steps,
\* function_evaluations = steps + 1, gradient_evaluations = 0 and
\* converged = true; steps = 0 included.
C15_FixedBudget ==
    /\ hc.iteration <= hc.steps
    /\ hc.pc = "done" =>
           /\ hc.iteration = hc.steps
           /\ hc.result.iterations = hc.steps
           /\ hc.result.function_evaluations = hc.steps + 1
           /\ hc.result.gradient_evaluations = 0
           /\ hc.result.converged

\* The whole budget was spent although the cost reached zero before the end
C15_Witness ==
    /\ hc.pc = "done"
    /\ hc.steps = MaxSteps
    /\ hc.tried # None
    /\ hc.tried.best_cost = 0
    /\ hc.result.function_evaluations = MaxSteps + 1

(***************************************************************************)
(* algorithms/geometric.py: gradient_descent, on a one-dimensional x with  *)
(* integer values.  The caller's grad_f is drawn from the affine functions *)
(* x |-> slope * x + offset, which hold gradients that vanish, that shrink *)
(* to zero, that oscillate and that grow; the norm of a one-dimensional    *)
(* gradient is its absolute value.  f is only evaluated on return and is   *)
(* kept as the point it is evaluated at.                                   *)
(***************************************************************************)
MaxX == 2            \* x0 is drawn from -MaxX .. MaxX
MaxLr == 2           \* learning_rate is drawn from 1 .. MaxLr
MaxTol == 2          \* tol is drawn from 0 .. MaxTol
MaxIter == 2         \* max_iter is drawn from 0 .. MaxIter

GradFns == [slope : 0..2, offset : (0 - 1)..1]

\* grad_f(x)
GradF(g, pt) == g.slope * pt + g.offset

\* BelowTol holding at the tolerance itself too
BelowTolInclusive(grad, tol) == Abs(grad) <= tol

\* np.linalg.norm(grad) < tol
BelowTol(grad, tol) == Abs(grad) < tol

\* x - learning_rate * grad
Update(pt, learning_rate, grad) == pt - learning_rate * grad

\* return OptimizationResult(..., converged=True), inside the loop
GdConverged(pt, i) ==
    [kind |-> "result", optimal_value |-> [f_at |-> pt], optimal_point |-> pt,
     iterations |-> i, function_evaluations |-> i + 1,
     gradient_evaluations |-> i + 1, converged |-> TRUE]

\* return OptimizationResult(..., converged=False), after the loop
GdExhausted(pt, max_iter) ==
    [kind |-> "result", optimal_value |-> [f_at |-> pt], optimal_point |-> pt,
     iterations |-> max_iter, function_evaluations |-> max_iter + 1,
     gradient_evaluations |-> max_iter, converged |-> FALSE]

\* gradient_descent(f, grad_f, x0, learning_rate, max_iter, tol): x = x0.copy()
InitGradient ==
    /\ \E g \in GradFns, x0 \in (0 - MaxX)..MaxX, lr \in 1..MaxLr,
          n \in 0..MaxIter, tol \in 0..MaxTol :
           gd = [pc |-> "loop", grad_f |-> g, x0 |-> x0, learning_rate |-> lr,
                 max_iter |-> n, tol |-> tol, x |-> x0, i |-> 0,
                 updates |-> 0, result |-> None]
    /\ hc = None
    /\ SumsetIdle
    /\ ExactIdle
    /\ WordIdle
    /\ LifeIdle

\* One pass of  for i in range(max_iter)  that goes on: the update
GdStep ==
    /\ gd.pc = "loop"
    /\ gd.i < gd.max_iter
    /\ LET grad == GradF(gd.grad_f, gd.x)
       IN  /\ ~BelowTol(grad, gd.tol)
           /\ gd' = [gd EXCEPT !.x = Update(gd.x, gd.learning_rate, grad),
                               !.i = @ + 1,
                               !.updates = @ + 1]
    /\ UNCHANGED <<hc, nonOptVars>>

\* One pass of the loop that finds the gradient below tol: return at once
GdStop ==
    /\ gd.pc = "loop"
    /\ gd.i < gd.max_iter
    /\ BelowTol(GradF(gd.grad_f, gd.x), gd.tol)
    /\ gd' = [gd EXCEPT !.pc = "done", !.result = GdConverged(gd.x, gd.i)]
    /\ UNCHANGED <<hc, nonOptVars>>

\* range(max_iter) is exhausted: return
GdGiveUp ==
    /\ gd.pc = "loop"
    /\ gd.i = gd.max_iter
    /\ gd' = [gd EXCEPT !.pc = "done", !.result = GdExhausted(gd.x, gd.max_iter)]
    /\ UNCHANGED <<hc, nonOptVars>>

NextGradient == GdStep \/ GdStop \/ GdGiveUp

SpecGradient == InitGradient /\ [][NextGradient]_vars

(***************************************************************************)
(* Properties of gradient_descent.                                         *)
(***************************************************************************)
\* x0 after n updates x <- x - learning_rate * grad_f(x)
RECURSIVE Iterate(_, _)
Iterate(run, n) ==
    IF n = 0 THEN run.x0
    ELSE LET prev == Iterate(run, n - 1)
         IN  prev - run.learning_rate * (run.grad_f.slope * prev + run.grad_f.offset)

\* The iterations i < max_iter at which the gradient norm is below tol
SmallAt(run) ==
    {i \in 0..(run.max_iter - 1) :
        Abs(run.grad_f.slope * Iterate(run, i) + run.grad_f.offset) < run.tol}

Least(S) == CHOOSE i \in S : \A j \in S : i <= j

\* C16: gradient_descent returns converged = true exactly when the gradient
\* norm is below tol at some iteration i < max_iter; it then stops at the
\* first such i, with iterations = i and the point reached by exactly i
\* updates.  Otherwise it makes exactly max_iter updates and returns
\* converged = false with iterations = max_iter; it returns a result in
\* both cases, never an error.
C16_ConvergedIffSmallGradient ==
    gd.pc = "done" =>
        /\ gd.result.kind = "result"
        /\ gd.result.converged <=> SmallAt(gd) # {}
        /\ gd.result.converged =>
               /\ gd.result.iterations = Least(SmallAt(gd))
               /\ gd.updates = gd.result.iterations
               /\ gd.result.optimal_point = Iterate(gd, gd.result.iterations)
        /\ ~gd.result.converged =>
               /\ gd.result.iterations = gd.max_iter
               /\ gd.updates = gd.max_iter
               /\ gd.result.optimal_point = Iterate(gd, gd.max_iter)

\* Convergence found after one update, before max_iter, at a point other
\* than x0
C16_Witness ==
    /\ gd.pc = "done"
    /\ gd.result.converged
    /\ gd.result.iterations = 1
    /\ gd.max_iter = MaxIter
    /\ gd.result.optimal_point # gd.x0

(***************************************************************************)
(* project.py and shared/base.py: BaseExperiment.execute running a         *)
(* RealRAMOperationsExperiment.  The counter holds whatever earlier calls  *)
(* left in it; n_points is an int or, to have run() raise, a value that    *)
(* range() rejects.                                                        *)
(***************************************************************************)
MaxPoints == 3       \* n_points is drawn from 0 .. MaxPoints
MaxPrior == 1        \* each counter field starts in 0 .. MaxPrior

PriorCounters ==
    [additions : 0..MaxPrior, multiplications : 0..MaxPrior,
     divisions : 0..MaxPrior, comparisons : 0..MaxPrior,
     square_roots : 0..MaxPrior, transcendental : 0..MaxPrior]

NPoints == {[kind |-> "int", v |-> n] : n \in 0..MaxPoints} \cup {[kind |-> "str"]}

\* OperationCost.total_algebraic
total_algebraic(cnt) ==
    cnt.additions + cnt.multiplications + cnt.divisions + cnt.comparisons
        + cnt.square_roots

\* RealRAMOperationsExperiment.setup
ExperimentSetup(cnt) == Reset(cnt)

\* Teardown leaving the counter as run() left it
ExperimentTeardownKeeps(cnt) == cnt

\* RealRAMOperationsExperiment.teardown
ExperimentTeardown(cnt) == Reset(cnt)

\* [ExactReal(i) for i in range(n_points)]
ExperimentPoints(n) == [i \in 1..n |-> FromInt(i - 1)]

\* diff = points[i] - points[j]; total = total + diff * diff
ExperimentPair(cnt, total, p, q) ==
    LET diff == ExactReal_sub(cnt, p, q)
        sq == ExactReal_mul(diff.cnt, diff.out, diff.out)
    IN  ExactReal_add(sq.cnt, total, sq.out)

\* The dictionary run() returns
ExperimentOutput(n_points, ops) ==
    [n_points |-> n_points, additions |-> ops.additions,
     multiplications |-> ops.multiplications, total |-> total_algebraic(ops)]

\* execute() entered: result.status = RUNNING, setup() not yet called
InitExperiment ==
    /\ counter \in PriorCounters
    /\ \E n \in NPoints :
           ex = [pc |-> "setup", n_points |-> n, prior |-> counter,
                 points |-> <<>>, total |-> None, i |-> 0, j |-> 0,
                 pairs |-> 0, output |-> None, status |-> "RUNNING"]
    /\ th = None
    /\ x = None
    /\ calls = None
    /\ steps = 0
    /\ last = None
    /\ chain = None
    /\ SumsetIdle
    /\ WordIdle
    /\ OptIdle

\* self.setup()
ExSetup ==
    /\ ex.pc = "setup"
    /\ counter' = ExperimentSetup(counter)
    /\ ex' = [ex EXCEPT !.pc = "run"]
    /\ UNCHANGED <<th, nonCounterVars>>

\* run(): the points, the reset and total = ExactReal(0)
ExRunStart ==
    /\ ex.pc = "run"
    /\ ex.n_points.kind = "int"
    /\ counter' = Reset(counter)
    /\ ex' = [ex EXCEPT !.pc = "pairs",
                        !.points = ExperimentPoints(ex.n_points.v),
                        !.total = FromInt(0), !.i = 0, !.j = 1]
    /\ UNCHANGED <<th, nonCounterVars>>

\* run(): range(self.n_points) raises TypeError; execute() records FAILED
ExRunRaises ==
    /\ ex.pc = "run"
    /\ ex.n_points.kind # "int"
    /\ ex' = [ex EXCEPT !.pc = "teardown", !.status = "FAILED"]
    /\ UNCHANGED <<counter, th, nonCounterVars>>

\* One pass of  for j in range(i + 1, len(points))
ExPair ==
    /\ ex.pc = "pairs"
    /\ ex.i < Len(ex.points)
    /\ ex.j < Len(ex.points)
    /\ LET r == ExperimentPair(counter, ex.total,
                               ex.points[ex.i + 1], ex.points[ex.j + 1])
       IN  /\ counter' = r.cnt
           /\ ex' = [ex EXCEPT !.total = r.out, !.j = @ + 1, !.pairs = @ + 1]
    /\ UNCHANGED <<th, nonCounterVars>>

\* The inner range is exhausted: the next pass of  for i in range(len(points))
ExNextI ==
    /\ ex.pc = "pairs"
    /\ ex.i < Len(ex.points)
    /\ ex.j >= Len(ex.points)
    /\ ex' = [ex EXCEPT !.i = @ + 1, !.j = ex.i + 2]
    /\ UNCHANGED <<counter, th, nonCounterVars>>

\* The outer range is exhausted: ops = get_operation_count(); return {...};
\* execute() records COMPLETED
ExReport ==
    /\ ex.pc = "pairs"
    /\ ex.i >= Len(ex.points)
    /\ ex' = [ex EXCEPT !.pc = "teardown", !.status = "COMPLETED",
                        !.output = ExperimentOutput(ex.n_points.v, counter)]
    /\ UNCHANGED <<counter, th, nonCounterVars>>

\* finally: self.teardown(); then execute() returns the result or re-raises
ExTeardown ==
    /\ ex.pc = "teardown"
    /\ counter' = ExperimentTeardown(counter)
    /\ ex' = [ex EXCEPT !.pc = "done"]
    /\ UNCHANGED <<th, nonCounterVars>>

NextExperiment ==
    ExSetup \/ ExRunStart \/ ExRunRaises \/ ExPair \/ ExNextI \/ ExReport
        \/ ExTeardown

SpecExperiment == InitExperiment /\ [][NextExperiment]_vars

(***************************************************************************)
(* Properties of the experiment.                                           *)
(***************************************************************************)
\* C17: the counters keep what the calls since the last reset added (two
\* additions and one multiplication per pair so far, nothing else) and a
\* reset zeroes all six; the run with n points reports n*(n-1) additions
\* and n*(n-1)/2 multiplications whatever the counters held before
\* execute; all six counters are zero once execute has returned or raised.
C17_ExperimentCounts ==
    /\ ex.pc = "run" => counter = OperationCost
    /\ ex.pc = "pairs" =>
           counter = [OperationCost EXCEPT !.additions = 2 * ex.pairs,
                                           !.multiplications = ex.pairs]
    /\ ex.status = "COMPLETED" =>
           LET n == Len(ex.points)
           IN  /\ n = ex.n_points.v
               /\ ex.output.additions = n * (n - 1)
               /\ 2 * ex.output.multiplications = n * (n - 1)
    /\ ex.pc = "done" =>
           /\ ex.status \in {"COMPLETED", "FAILED"}
           /\ counter = OperationCost

\* execute() returned a report of MaxPoints points although every counter
\* was nonzero before
C17_Witness ==
    /\ ex.pc = "done"
    /\ ex.status = "COMPLETED"
    /\ ex.n_points.v = MaxPoints
    /\ ex.output.additions = MaxPoints * (MaxPoints - 1)
    /\ \A f \in DOMAIN ex.prior : ex.prior[f] > 0

(***************************************************************************)
(* models/real_ram.py: two callers sharing the module-level                *)
(* _operation_counter.  Each caller resets the counter, adds ExactReal     *)
(* values k times and reads the counter.  The statement                    *)
(* `_operation_counter.additions += 1` reads the attribute and then writes  *)
(* it back, and the other caller may run between the two; the operands and *)
(* the result of an addition belong to the caller and are left out.        *)
(***************************************************************************)
MaxK == 2            \* each caller makes 1 .. MaxK additions

Callers == {"c1", "c2"}

Other(c) == CHOOSE d \in Callers : d # c

\* The value written back being two above the value read
IncrementedTwice(reg) == reg + 2

\* the value `additions += 1` writes back
Incremented(reg) == reg + 1

\* Between its reset and its read
Measuring(c) == th[c].pc \in {"load", "store", "read"}

\* The other caller's entry once c has written the counter
Disturb(c, how) ==
    IF Measuring(Other(c)) THEN [th[Other(c)] EXCEPT ![how] = TRUE]
    ELSE th[Other(c)]

InitConcurrent ==
    /\ counter = OperationCost
    /\ th \in [Callers -> {[pc |-> "reset", k |-> k, done |-> 0, reg |-> 0,
                            observed |-> 0, reset_by_other |-> FALSE,
                            store_by_other |-> FALSE] : k \in 1..MaxK}]
    /\ ex = None
    /\ x = None
    /\ calls = None
    /\ steps = 0
    /\ last = None
    /\ chain = None
    /\ SumsetIdle
    /\ WordIdle
    /\ OptIdle

\* reset_operation_count()
ThReset(c) ==
    /\ th[c].pc = "reset"
    /\ counter' = Reset(counter)
    /\ th' = [th EXCEPT ![c].pc = "load",
                        ![Other(c)] = Disturb(c, "reset_by_other")]
    /\ UNCHANGED <<ex, nonCounterVars>>

\* __add__: the read of _operation_counter.additions
ThLoad(c) ==
    /\ th[c].pc = "load"
    /\ th' = [th EXCEPT ![c].pc = "store", ![c].reg = counter.additions]
    /\ UNCHANGED <<counter, ex, nonCounterVars>>

\* __add__: the write of _operation_counter.additions, and the rest of the call
ThStore(c) ==
    /\ th[c].pc = "store"
    /\ counter' = [counter EXCEPT !.additions = Incremented(th[c].reg)]
    /\ th' = [th EXCEPT ![c].done = @ + 1,
                        ![c].pc = IF th[c].done + 1 = th[c].k THEN "read"
                                  ELSE "load",
                        ![Other(c)] = Disturb(c, "store_by_other")]
    /\ UNCHANGED <<ex, nonCounterVars>>

\* get_operation_count().additions
ThRead(c) ==
    /\ th[c].pc = "read"
    /\ th' = [th EXCEPT ![c].pc = "done", ![c].observed = counter.additions]
    /\ UNCHANGED <<counter, ex, nonCounterVars>>

NextConcurrent ==
    \E c \in Callers : ThReset(c) \/ ThLoad(c) \/ ThStore(c) \/ ThRead(c)

SpecConcurrent == InitConcurrent /\ [][NextConcurrent]_vars

(***************************************************************************)
(* Properties of the shared counter.                                       *)
(***************************************************************************)
\* C18: a caller that resets the counter, makes k additions and reads it
\* observes k unless the other caller reset or wrote the counter in
\* between; when the other caller did, the value observed can differ from
\* k (the witness: increments lost to the other caller's write-back).
C18_SharedCounterCorrupts ==
    \A c \in Callers :
        th[c].pc = "done" =>
            \/ th[c].observed = th[c].k
            \/ th[c].reset_by_other
            \/ th[c].store_by_other

\* A caller reads fewer than its own k additions although the other caller
\* never reset the counter in between
C18_Witness ==
    \E c \in Callers :
        /\ th[c].pc = "done"
        /\ th[c].observed < th[c].k
        /\ ~th[c].reset_by_other
        /\ th[c].store_by_other

(***************************************************************************)
(* Properties of the presence table of bucket_sumset.                      *)
(***************************************************************************)
\* C19: with nonempty A and B the presence table of bucket_sumset has
\* length R = (max(A) + max(B)) - (min(A) + min(B)) + 1 >= 1, every index
\* (x + y) - (min(A) + min(B)) the pair loop writes lies in 0 .. R-1, so
\* that no store raises IndexError or wraps around from a negative index,
\* and slot 0 and slot R-1 are marked.
C19_BucketSlotsInRange ==
    (Done(bucket) /\ NonEmptyInputs) =>
        LET st == BucketTable(a, b)
            R == (SeqMax(a) + SeqMax(b)) - (SeqMin(a) + SeqMin(b)) + 1
        IN  /\ R >= 1
            /\ st.len = R
            /\ ~st.error
            /\ bucket.kind # "error"
            /\ st.slots # {}
            /\ st.slots \subseteq 0..(R - 1)
            /\ st.hit[0]
            /\ st.hit[R - 1]

\* A table over a range that starts below zero, with an unmarked slot
\* between the two ends
C19_Witness ==
    /\ Done(bucket) /\ NonEmptyInputs
    /\ SeqMin(a) + SeqMin(b) < 0
    /\ LET st == BucketTable(a, b)
       IN  /\ st.len >= 3
           /\ \E i \in 1..(st.len - 2) : ~st.hit[i]
           /\ st.hit[0] /\ st.hit[st.len - 1]

====
